---- MODULE Spec2Model ----
(***************************************************************************)
(* Player controller of the dungeon shooter (src/src/player.js):          *)
(* updatePlayer, the tween completion callback it registers,              *)
(* handleTileInteraction, applyPowerUp and updateShieldAndCollisions.     *)
(*                                                                         *)
(* The Phaser game loop is the environment.  One frame is: the clock      *)
(* advances (Frame), the tween engine completes the tweens that are due   *)
(* (TweenComplete), the scene calls updatePlayer (UpdatePlayer).  A tween *)
(* that falls due exactly at the frame's time may complete on either side *)
(* of that frame's updatePlayer (the engine runs on smoothed deltas, the  *)
(* update on the raw clock); a tween that was due earlier has completed.  *)
(* The key events of a frame are delivered before its updatePlayer.       *)
(*                                                                         *)
(* Spec is the safety specification.  WindSpec adds weak fairness of the  *)
(* frame, the tween completion and the updatePlayer call, for the         *)
(* progress property of the wind tiles.                                   *)
(*                                                                         *)
(* Not modelled: pixel positions and velocities, floating texts, the      *)
(* shield's orbit angle, the per-cell text overlay (all write-only here), *)
(* and the decrement of the power-up timers (done outside player.js).     *)
(***************************************************************************)
EXTENDS Integers, Sequences, FiniteSets

\* ---------------------------------------------------------------- constants
MOVEMENT_COOLDOWN == 200
WATER_MOVEMENT_DURATION == 200
NORMAL_MOVEMENT_DURATION == 100
GRID_WIDTH == 20
GRID_HEIGHT == 12

HAZARD_DAMAGE == 20
TREASURE_SCORE == 50
SHIELD_CHARGES == 3
POWERUP_DURATION == 30000
HEAL_AMOUNT == 25
MAX_HEALTH == 100
ENEMY_DAMAGE == 10
XBITE_THRESHOLD == 1000

\* [1, 2, 7, 13, 14].includes(tile)
Collidable == {1, 2, 7, 13, 14}

\* ------------------------------------------------------------------- bounds
\* the clock may advance this many shortest frames past its start
MaxTicks == 5
NumEnemies == 2
NumProjectiles == 1

\* the clock: the time of the first frame and the frame lengths, in ms
Clock == [start |-> 1000, step |-> 100]
Deltas == {Clock.step, 2 * Clock.step}
StartTime == Clock.start
MaxTime == StartTime + MaxTicks * Clock.step

\* the value of a property that was never set, and of a read past the end of
\* a row
Undefined == -1

Cols == 0 .. (GRID_WIDTH - 1)
Rows == 0 .. (GRID_HEIGHT - 1)

Directions == {"left", "right", "up", "down"}
\* the direction keys held during one tick: none, one, or two at once
KeyCombos == {ks \in SUBSET Directions : Cardinality(ks) <= 2}

\* ------------------------------------------------------------ room fixture
\* A room as the generator builds them: wall border with four doors (3) and
\* floor inside.  Around the middle lie the tiles the movement reacts to;
\* in the upper left a walled chamber holds the power-ups.
Chamber == <<4, 3>>
\* the cells the room is built with a treasure on
TreasureCells == {<<9, 6>>}

RoomTile(x, y) ==
    CASE <<x, y>> \in {<<10, 0>>, <<10, 11>>, <<0, 6>>, <<19, 6>>} -> 3
      [] x = 0 \/ x = GRID_WIDTH - 1 \/ y = 0 \/ y = GRID_HEIGHT - 1 -> 1
      [] <<x, y>> = <<11, 6>> -> 5     \* spike
      [] <<x, y>> = <<11, 5>> -> 8     \* fire pit
      [] <<x, y>> \in TreasureCells -> 6
      [] <<x, y>> = <<8, 6>>  -> 23    \* health
      [] <<x, y>> = <<10, 5>> -> 12    \* water
      [] <<x, y>> = <<10, 7>> -> 9     \* wind gust right
      [] <<x, y>> = <<11, 7>> -> 9     \* wind gust right against a wall
      [] <<x, y>> = <<12, 7>> -> 2
      [] <<x, y>> = <<9, 7>>  -> 10    \* wind gust left
      [] <<x, y>> = <<7, 7>>  -> 13
      [] <<x, y>> = <<18, 6>> -> 9     \* wind gust right, next to the door
      [] <<x, y>> = <<10, 10>> -> 10   \* wind gust left, next to the door
      [] <<x, y>> = <<1, 6>>  -> 23    \* health, next to the door
      [] <<x, y>> = <<1, 5>>  -> 7
      [] <<x, y>> = <<1, 7>>  -> 14
      [] <<x, y>> = <<4, 3>>  -> 0     \* the chamber
      [] <<x, y>> = <<4, 2>>  -> 19    \* shield
      [] <<x, y>> = <<4, 1>>  -> 19    \* shield
      [] <<x, y>> = <<3, 3>>  -> 20    \* triple shot
      [] <<x, y>> = <<5, 3>>  -> 21    \* speed boost
      [] <<x, y>> = <<4, 4>>  -> 22    \* slow shot
      [] x \in 2 .. 6 /\ y \in 1 .. 5 -> 1
      [] OTHER -> 0

Room == [y \in Rows |-> [x \in Cols |-> RoomTile(x, y)]]

PowerUpCells == {c \in Cols \X Rows : RoomTile(c[1], c[2]) \in 19 .. 23}
\* the slow-shot tile has lost its sprite
RoomSprites == PowerUpCells \ {<<4, 4>>}

\* The sessions the model starts from: setupPlayer's cell in the middle of
\* the room, the chamber, or one of the four doors a player enters a room
\* through, with the game state the session has reached by then.
\* foes: the enemies (and whether projectiles) in the room; key: a key
\* pickup lies in the room.
Scenario(cell, health, shield, timer, charge, ready, foes, key) ==
    [cell |-> cell, health |-> health, shield |-> shield, timer |-> timer,
     charge |-> charge, ready |-> ready, foes |-> foes, key |-> key]

Middle == <<GRID_WIDTH \div 2, GRID_HEIGHT \div 2>>

Scenarios ==
    {Scenario(Middle, 15, 0, 0, 0, TRUE, 1, FALSE),
     Scenario(Chamber, MAX_HEALTH, 1, 12000, XBITE_THRESHOLD - 1, TRUE,
              NumEnemies, FALSE),
     Scenario(<<10, 0>>, MAX_HEALTH, 0, 0, 0, FALSE, 0, FALSE),
     Scenario(<<10, 11>>, MAX_HEALTH, 0, 0, 0, TRUE, 0, FALSE),
     Scenario(<<0, 6>>, MAX_HEALTH - 10, 0, 0, 0, TRUE, 0, TRUE),
     Scenario(<<19, 6>>, MAX_HEALTH, 0, 0, 0, TRUE, 0, FALSE)}

\* -------------------------------------------------------------------- state
VARIABLES
    now,              \* time of the current frame
    phase,            \* "frame": updatePlayer still to run; "idle": it ran
    gridReady,        \* scene.dungeonGrid is set
    dungeonGrid,      \* scene.dungeonGrid[y][x]
    gridX, gridY,     \* player.gridX, player.gridY
    lastMoveTime,     \* gameState.lastMoveTime
    tweens,           \* tweens whose onComplete is pending, oldest first
    playerHealth,     \* gameState.playerHealth
    shieldHP,         \* gameState.shieldHP
    shieldSprite,     \* scene.shieldSprite is not null
    timers,           \* tripleShotTimer, speedBoostTimer, slowShotTimer
    score,            \* gameState.score
    powerUpSprites,   \* cells of scene.powerUpSprites
    keyPresent,       \* scene.key is not null
    hasKey,           \* gameState.hasKey
    enemies,          \* active members of scene.enemies
    enemyProjectiles, \* members of scene.enemyProjectiles
    chargeLevel,      \* gameState.chargeLevel
    xbiteKey,         \* scene.xbiteKey: "up", "justDown", "held"
    gameOver,         \* scene.gameOver
    lastTick          \* what the last updatePlayer call met and how far it got

vars == <<now, phase, gridReady, dungeonGrid, gridX, gridY, lastMoveTime,
          tweens, playerHealth, shieldHP, shieldSprite, timers, score,
          powerUpSprites, keyPresent, hasKey, enemies, enemyProjectiles,
          chargeLevel, xbiteKey, gameOver, lastTick>>

\* --------------------------------------------------------------- tile reads
\* dungeonGrid[y] is undefined outside the rows, and indexing it throws
RowMissing(y) == y \notin Rows

\* dungeonGrid[y][x] for a row that exists: undefined past the row's ends
TileAt(g, x, y) == IF x \in Cols THEN g[y][x] ELSE Undefined

\* canMove(newX, newY), for a row that exists
canMove(g, newX, newY) ==
    LET tile == TileAt(g, newX, newY)
        isCollidable == tile \in Collidable
    IN  ~isCollidable /\ newX >= 0 /\ newX < GRID_WIDTH
                      /\ newY >= 0 /\ newY < GRID_HEIGHT

\* canMove(newX, newY) as the caller sees it
canMoveResult(g, newX, newY) ==
    IF RowMissing(newY) THEN "TypeError"
    ELSE IF canMove(g, newX, newY) THEN "true" ELSE "false"

\* ---------------------------------------------------------- move selection
\* the gust-left tile (10) left without a push
MutWindPush(g, gx, gy) ==
    LET currentTile == TileAt(g, gx, gy)
    IN  IF currentTile = 9
        THEN (IF canMove(g, gx + 1, gy) THEN 1 ELSE 0)
        ELSE 0

\* lines 86-99: the push of the wind tile the player stands on (-1, 0, 1)
WindPush(g, gx, gy) ==
    LET currentTile == TileAt(g, gx, gy)
    IN  IF currentTile = 9
        THEN (IF canMove(g, gx + 1, gy) THEN 1 ELSE 0)
        ELSE IF currentTile = 10
        THEN (IF canMove(g, gx - 1, gy) THEN -1 ELSE 0)
        ELSE 0

\* lines 102-118: the if / else-if chain over the cursor keys.  A test
\* cursors.k.isDown && canMove(..) calls canMove only when k is down, and an
\* exception in the call ends updatePlayer.
KeyBranchDown(g, gx, gy, keys) ==
    LET r == canMoveResult(g, gx, gy + 1)
    IN  IF "down" \notin keys THEN "none"
        ELSE IF r = "TypeError" THEN "TypeError"
        ELSE IF r = "true" THEN "down" ELSE "none"

KeyBranchUp(g, gx, gy, keys) ==
    LET r == canMoveResult(g, gx, gy - 1)
    IN  IF "up" \notin keys THEN KeyBranchDown(g, gx, gy, keys)
        ELSE IF r = "TypeError" THEN "TypeError"
        ELSE IF r = "true" THEN "up"
        ELSE KeyBranchDown(g, gx, gy, keys)

KeyBranch(g, gx, gy, keys) ==
    IF "left" \in keys /\ canMoveResult(g, gx - 1, gy) = "true" THEN "left"
    ELSE IF "right" \in keys /\ canMoveResult(g, gx + 1, gy) = "true"
    THEN "right"
    ELSE KeyBranchUp(g, gx, gy, keys)

\* lines 80-118: moved, newGridX, newGridY after the wind block and the key
\* chain have both run, or the exception that ended the call
SelectMove(g, gx, gy, keys) ==
    IF RowMissing(gy)
    THEN [threw |-> TRUE, moved |-> FALSE, x |-> gx, y |-> gy]
    ELSE
    LET wind == WindPush(g, gx, gy)
        key  == KeyBranch(g, gx, gy, keys)
        dx   == CASE key = "left" -> -1 [] key = "right" -> 1 [] OTHER -> 0
        dy   == CASE key = "up" -> -1 [] key = "down" -> 1 [] OTHER -> 0
    IN  IF key = "TypeError"
        THEN [threw |-> TRUE, moved |-> FALSE, x |-> gx, y |-> gy]
        ELSE [threw |-> FALSE,
              moved |-> (wind # 0 \/ key # "none"),
              x |-> gx + wind + dx,
              y |-> gy + dy]

\* line 121
TweenDuration(g, x, y) ==
    IF TileAt(g, x, y) = 12 THEN WATER_MOVEMENT_DURATION
    ELSE NORMAL_MOVEMENT_DURATION

\* the cooldown compared against the tween's length instead of its own
MutCooldownActive(time, last) == time - last < NORMAL_MOVEMENT_DURATION

\* lines 66-67
CooldownActive(time, last) == time - last < MOVEMENT_COOLDOWN

\* -------------------------------------------------- shield and collisions
Min(a, b) == IF a < b THEN a ELSE b

\* the damage branch taken after the shield branch instead of in its place
MutResolveOverlap(st) ==
    [st EXCEPT !.shieldHP = IF st.shieldHP > 0 THEN st.shieldHP - 1
                            ELSE st.shieldHP,
               !.shieldSprite = IF st.shieldHP = 1 THEN FALSE
                                ELSE st.shieldSprite,
               !.playerHealth = st.playerHealth - ENEMY_DAMAGE,
               !.gameOver = IF st.playerHealth - ENEMY_DAMAGE <= 0
                            THEN TRUE ELSE st.gameOver]

\* lines 247-261: one overlapping enemy against the state so far
ResolveOverlap(st) ==
    IF st.shieldHP > 0
    THEN [st EXCEPT !.shieldHP = st.shieldHP - 1,
                    !.shieldSprite = IF st.shieldHP - 1 = 0 THEN FALSE
                                     ELSE st.shieldSprite]
    ELSE [st EXCEPT !.playerHealth = st.playerHealth - ENEMY_DAMAGE,
                    !.gameOver = IF st.playerHealth - ENEMY_DAMAGE <= 0
                                 THEN TRUE ELSE st.gameOver]

\* lines 245-263: enemies.children.each over the overlapping enemies, in
\* enumeration order (ascending id)
RECURSIVE ResolveAll(_, _)
ResolveAll(ov, st) ==
    IF ov = {} THEN st
    ELSE LET e == CHOOSE m \in ov : \A o \in ov : m <= o
         IN  ResolveAll(ov \ {e}, ResolveOverlap(st))

\* lines 231-243: the shield sprite at the top of updateShieldAndCollisions
SpriteAtEntry(shield, sprite) == shield > 0

\* the gate reading isDown instead of JustDown
MutXbiteFires(key, charge) == key # "up" /\ charge >= XBITE_THRESHOLD

\* line 265: JustDown(scene.xbiteKey) && gameState.chargeLevel >= 1000
XbiteFires(key, charge) == key = "justDown" /\ charge >= XBITE_THRESHOLD

\* ------------------------------------------------------ tile interaction
\* the shield charges added to the ones left instead of replacing them
MutPowerUpShield(tile, shield) ==
    IF tile = 19 THEN shield + SHIELD_CHARGES ELSE shield

\* lines 188-220: applyPowerUp's effect on shield, timers and health
PowerUpShield(tile, shield) == IF tile = 19 THEN SHIELD_CHARGES ELSE shield

PowerUpTimers(tile, t) ==
    CASE tile = 20 -> [t EXCEPT !.tripleShot = POWERUP_DURATION]
      [] tile = 21 -> [t EXCEPT !.speedBoost = POWERUP_DURATION]
      [] tile = 22 -> [t EXCEPT !.slowShot = POWERUP_DURATION]
      [] OTHER -> t

\* the health boost added without the cap
MutPowerUpHealth(tile, health) ==
    IF tile = 23 THEN health + HEAL_AMOUNT ELSE health

\* lines 215-219
PowerUpHealth(tile, health) ==
    IF tile = 23 THEN Min(health + HEAL_AMOUNT, MAX_HEALTH) ELSE health

\* the call given up when no sprite is found at the cell
MutApplyPowerUp(st, tile, x, y) ==
    IF <<x, y>> \notin st.powerUpSprites THEN st
    ELSE
    [st EXCEPT !.dungeonGrid = [st.dungeonGrid EXCEPT ![y][x] = 0],
               !.powerUpSprites = st.powerUpSprites \ {<<x, y>>},
               !.shieldHP = PowerUpShield(tile, st.shieldHP),
               !.shieldSprite = IF tile = 19 THEN TRUE ELSE st.shieldSprite,
               !.timers = PowerUpTimers(tile, st.timers),
               !.playerHealth = PowerUpHealth(tile, st.playerHealth)]

\* lines 188-220: applyPowerUp(scene, tile, x, y) on the state st
applyPowerUp(st, tile, x, y) ==
    [st EXCEPT !.dungeonGrid = [st.dungeonGrid EXCEPT ![y][x] = 0],
               !.powerUpSprites = st.powerUpSprites \ {<<x, y>>},
               !.shieldHP = PowerUpShield(tile, st.shieldHP),
               !.shieldSprite = IF tile = 19 THEN TRUE ELSE st.shieldSprite,
               !.timers = PowerUpTimers(tile, st.timers),
               !.playerHealth = PowerUpHealth(tile, st.playerHealth)]

\* the hazard consumed like a pickup
MutHazardEffect(st, x, y) ==
    [st EXCEPT !.playerHealth = st.playerHealth - HAZARD_DAMAGE,
               !.gameOver = IF st.playerHealth - HAZARD_DAMAGE <= 0
                            THEN TRUE ELSE st.gameOver,
               !.dungeonGrid = [st.dungeonGrid EXCEPT ![y][x] = 0]]

\* lines 162-169: the spike and fire pit branch
HazardEffect(st, x, y) ==
    [st EXCEPT !.playerHealth = st.playerHealth - HAZARD_DAMAGE,
               !.gameOver = IF st.playerHealth - HAZARD_DAMAGE <= 0
                            THEN TRUE ELSE st.gameOver]

\* the score added with the cell left a treasure
MutTreasureEffect(st, x, y) ==
    [st EXCEPT !.score = st.score + TREASURE_SCORE]

\* lines 170-175: the treasure branch
TreasureEffect(st, x, y) ==
    [st EXCEPT !.score = st.score + TREASURE_SCORE,
               !.dungeonGrid = [st.dungeonGrid EXCEPT ![y][x] = 0]]

\* the fire pit (8) left out of the hazard test
MutHandleTileInteraction(st, x, y) ==
    LET tile == TileAt(st.dungeonGrid, x, y)
    IN  IF tile = 5 THEN HazardEffect(st, x, y)
        ELSE IF tile = 6 THEN TreasureEffect(st, x, y)
        ELSE IF tile >= 19 /\ tile <= 23 THEN applyPowerUp(st, tile, x, y)
        ELSE st

\* lines 158-179: handleTileInteraction(scene, x, y) on the state st, for a
\* cell whose row exists
handleTileInteraction(st, x, y) ==
    LET tile == TileAt(st.dungeonGrid, x, y)
    IN  IF tile = 5 \/ tile = 8 THEN HazardEffect(st, x, y)
        ELSE IF tile = 6 THEN TreasureEffect(st, x, y)
        ELSE IF tile >= 19 /\ tile <= 23 THEN applyPowerUp(st, tile, x, y)
        ELSE st

\* ------------------------------------------------------------------ actions
\* the grid test of lines 69-72 left out
MutEarlyReturn(time, last, ready, threw) ==
    IF CooldownActive(time, last) THEN "cooldown"
    ELSE IF threw THEN "TypeError"
    ELSE "done"

\* lines 66-118: where updatePlayer(scene, time, delta) ends: in the
\* cooldown return, in the missing-grid return, in an exception of the move
\* selection, or ("done") past the collisions and the gate
EarlyReturn(time, last, ready, threw) ==
    IF CooldownActive(time, last) THEN "cooldown"
    ELSE IF ~ready THEN "nogrid"
    ELSE IF threw THEN "TypeError"
    ELSE "done"

\* line 140: scene.key && scene.physics.overlap(player, scene.key)
PicksKey(present, overlap) == present /\ overlap

\* the flag assigned the outcome of the overlap test
MutHasKeyAfter(has, picks) == picks

\* line 141: gameState.hasKey after the key block
HasKeyAfter(has, picks) == IF picks THEN TRUE ELSE has

\* lastTick: reached is where the call ended, missed the overlapping enemies
\* it left active, hits the overlaps it resolved, keyOverlap whether its key
\* block saw the player on the key
NoTick == [reached |-> "none", missed |-> {}, hits |-> 0, keyOverlap |-> FALSE]

Init ==
    \E s \in Scenarios :
       /\ now = StartTime
       /\ phase = "idle"
       /\ gridReady = s.ready
       /\ dungeonGrid = Room
       /\ gridX = s.cell[1]
       /\ gridY = s.cell[2]
       /\ lastMoveTime = Undefined
       /\ tweens = <<>>
       /\ playerHealth = s.health
       /\ shieldHP = s.shield
       /\ shieldSprite = (s.shield > 0)
       /\ timers = [tripleShot |-> s.timer, speedBoost |-> s.timer,
                    slowShot |-> s.timer]
       /\ score = 0
       /\ powerUpSprites = RoomSprites
       /\ keyPresent = s.key
       /\ hasKey = FALSE
       /\ enemies = 1 .. s.foes
       /\ enemyProjectiles = 1 .. (IF s.foes > 0 THEN NumProjectiles ELSE 0)
       /\ chargeLevel = s.charge
       /\ xbiteKey = "up"
       /\ gameOver = FALSE
       /\ lastTick = NoTick

\* the game loop starts the next frame d ms later; every tween that was due
\* in the frame before has completed by then
Frame(d) ==
    /\ phase = "idle"
    /\ now + d <= MaxTime
    /\ \A i \in DOMAIN tweens : tweens[i].due > now
    /\ now' = now + d
    /\ phase' = "frame"
    /\ UNCHANGED <<gridReady, dungeonGrid, gridX, gridY, lastMoveTime, tweens,
                   playerHealth, shieldHP, shieldSprite, timers, score,
                   powerUpSprites, keyPresent, hasKey, enemies,
                   enemyProjectiles, chargeLevel, xbiteKey, gameOver, lastTick>>

\* lines 128-134: onComplete of the oldest tween, once its duration is over
TweenComplete ==
    /\ tweens # <<>>
    /\ Head(tweens).due <= now
    /\ LET t == Head(tweens)
           st == handleTileInteraction(
                     [dungeonGrid |-> dungeonGrid,
                      playerHealth |-> playerHealth, gameOver |-> gameOver,
                      score |-> score, powerUpSprites |-> powerUpSprites,
                      shieldHP |-> shieldHP, shieldSprite |-> shieldSprite,
                      timers |-> timers], t.x, t.y)
       IN  /\ gridX' = t.x
           /\ gridY' = t.y
           /\ tweens' = Tail(tweens)
           /\ dungeonGrid' = st.dungeonGrid
           /\ playerHealth' = st.playerHealth
           /\ gameOver' = st.gameOver
           /\ score' = st.score
           /\ powerUpSprites' = st.powerUpSprites
           /\ shieldHP' = st.shieldHP
           /\ shieldSprite' = st.shieldSprite
           /\ timers' = st.timers
    /\ UNCHANGED <<now, phase, gridReady, lastMoveTime, keyPresent, hasKey,
                   enemies, enemyProjectiles, chargeLevel, xbiteKey, lastTick>>

\* lines 63-150 with 228-272: one call updatePlayer(scene, now, delta) with
\* the cursor keys in keys held, the active enemies in ov overlapping the
\* player and keyOverlap telling whether the player overlaps the key
UpdatePlayer(keys, ov, keyOverlap) ==
    /\ phase = "frame"
    /\ \A i \in DOMAIN tweens : tweens[i].due >= now
    /\ phase' = "idle"
    /\ UNCHANGED <<now, gridReady, dungeonGrid, gridX, gridY, timers, score,
                   powerUpSprites>>
    /\ LET last0 == IF lastMoveTime = Undefined THEN 0 ELSE lastMoveTime
           sel   == SelectMove(dungeonGrid, gridX, gridY, keys)
           early == EarlyReturn(now, last0, gridReady, sel.threw)
       IN  IF early # "done"
           THEN /\ lastMoveTime' = last0
                /\ lastTick' = [reached |-> early, missed |-> ov, hits |-> 0,
                                keyOverlap |-> FALSE]
                /\ UNCHANGED <<tweens, playerHealth, shieldHP, shieldSprite,
                               keyPresent, hasKey, enemies, enemyProjectiles,
                               chargeLevel, xbiteKey, gameOver>>
           ELSE
           LET st == ResolveAll(ov,
                        [shieldHP |-> shieldHP,
                         shieldSprite |-> SpriteAtEntry(shieldHP, shieldSprite),
                         playerHealth |-> playerHealth,
                         gameOver |-> gameOver])
               justDown == xbiteKey = "justDown"
               fire == XbiteFires(xbiteKey, chargeLevel)
               left == enemies \ ov
           IN  /\ tweens' = IF sel.moved
                            THEN Append(tweens,
                                   [x |-> sel.x, y |-> sel.y,
                                    due |-> now + TweenDuration(dungeonGrid,
                                                                sel.x, sel.y)])
                            ELSE tweens
               /\ lastMoveTime' = IF sel.moved THEN now ELSE last0
               /\ hasKey' = HasKeyAfter(hasKey, PicksKey(keyPresent, keyOverlap))
               /\ keyPresent' = IF PicksKey(keyPresent, keyOverlap) THEN FALSE
                                ELSE keyPresent
               /\ shieldHP' = st.shieldHP
               /\ shieldSprite' = st.shieldSprite
               /\ playerHealth' = st.playerHealth
               /\ gameOver' = st.gameOver
               /\ xbiteKey' = IF justDown THEN "held" ELSE xbiteKey
               /\ enemies' = IF fire THEN {} ELSE left
               /\ enemyProjectiles' = IF fire THEN {} ELSE enemyProjectiles
               /\ chargeLevel' = IF fire THEN 0 ELSE chargeLevel
               /\ lastTick' = [reached |-> "done", missed |-> ov \cap left,
                               hits |-> Cardinality(ov),
                               keyOverlap |-> keyOverlap]

\* keydown and keyup of the X key; the presses are followed once the charge
\* is within a point of the gate's threshold
PressX ==
    /\ phase = "frame"
    /\ chargeLevel >= XBITE_THRESHOLD - 1
    /\ xbiteKey = "up"
    /\ xbiteKey' = "justDown"
    /\ UNCHANGED <<now, phase, gridReady, dungeonGrid, gridX, gridY,
                   lastMoveTime, tweens, playerHealth, shieldHP, shieldSprite,
                   timers, score, powerUpSprites, keyPresent, hasKey, enemies,
                   enemyProjectiles, chargeLevel, gameOver, lastTick>>

ReleaseX ==
    /\ phase = "frame"
    /\ xbiteKey # "up"
    /\ xbiteKey' = "up"
    /\ UNCHANGED <<now, phase, gridReady, dungeonGrid, gridX, gridY,
                   lastMoveTime, tweens, playerHealth, shieldHP, shieldSprite,
                   timers, score, powerUpSprites, keyPresent, hasKey, enemies,
                   enemyProjectiles, chargeLevel, gameOver, lastTick>>

\* the room system sets scene.dungeonGrid
GridLoaded ==
    /\ phase = "frame"
    /\ ~gridReady
    /\ gridReady' = TRUE
    /\ UNCHANGED <<now, phase, dungeonGrid, gridX, gridY, lastMoveTime, tweens,
                   playerHealth, shieldHP, shieldSprite, timers, score,
                   powerUpSprites, keyPresent, hasKey, enemies,
                   enemyProjectiles, chargeLevel, xbiteKey, gameOver, lastTick>>

\* an enemy defeated elsewhere earns the last point of charge
ChargeGain ==
    /\ phase = "frame"
    /\ chargeLevel = XBITE_THRESHOLD - 1
    /\ chargeLevel' = XBITE_THRESHOLD
    /\ UNCHANGED <<now, phase, gridReady, dungeonGrid, gridX, gridY,
                   lastMoveTime, tweens, playerHealth, shieldHP, shieldSprite,
                   timers, score, powerUpSprites, keyPresent, hasKey, enemies,
                   enemyProjectiles, xbiteKey, gameOver, lastTick>>

\* the cursor keys are state of nothing: a call that returns before line 102
\* does not read them, so one choice stands for all
KeysRead ==
    IF \/ CooldownActive(now, IF lastMoveTime = Undefined THEN 0
                              ELSE lastMoveTime)
       \/ ~gridReady
    THEN {{}} ELSE KeyCombos

Next ==
    \/ \E d \in Deltas : Frame(d)
    \/ TweenComplete
    \/ \E keys \in KeysRead, ov \in SUBSET enemies,
          keyOverlap \in {o \in BOOLEAN : o => keyPresent} :
          UpdatePlayer(keys, ov, keyOverlap)
    \/ PressX
    \/ ReleaseX
    \/ GridLoaded
    \/ ChargeGain

Spec == Init /\ [][Next]_vars

\* --------------------------------------------------- the game kept running
\* The sessions that start next to a wind tile (the middle of the room, the
\* bottom door and the right door), in which the player lets go of the
\* direction keys while standing on a wind tile, the game loop goes on
\* calling updatePlayer frame after frame and the engine completes every
\* tween that is due.  The grid is set and the charge is 0 in all of them, so
\* GridLoaded, ChargeGain, PressX and ReleaseX are never enabled.
WindInit == Init /\ <<gridX, gridY>> \in {Middle, <<10, 11>>, <<19, 6>>}

OnGust == gridX \in Cols /\ dungeonGrid[gridY][gridX] \in {9, 10}

KeysWind == IF OnGust THEN {{}} ELSE KeysRead

WindTick ==
    \E keys \in KeysWind, ov \in SUBSET enemies,
       keyOverlap \in {o \in BOOLEAN : o => keyPresent} :
       UpdatePlayer(keys, ov, keyOverlap)

WindNext ==
    \/ \E d \in Deltas : Frame(d)
    \/ TweenComplete
    \/ WindTick

WindSpec ==
    /\ WindInit
    /\ [][WindNext]_vars
    /\ WF_vars(\E d \in Deltas : Frame(d))
    /\ WF_vars(TweenComplete)
    /\ WF_vars(WindTick)

\* ------------------------------------------------------------- properties
\* a step of UpdatePlayer, and one that ran past the collisions and the gate
IsTick == phase = "frame" /\ phase' = "idle"
IsFullTick == IsTick /\ lastTick'.reached = "done"
\* a step of UpdatePlayer that handed a tween to the engine
Initiates == Len(tweens') > Len(tweens)
\* a step of TweenComplete
IsArrival == tweens # <<>> /\ tweens' = Tail(tweens)
Abs(n) == IF n < 0 THEN -n ELSE n
\* the tile under the destination the oldest tween commits when it completes
ArrivalTile ==
    LET t == Head(tweens)
    IN  IF t.x \in Cols /\ t.y \in Rows THEN dungeonGrid[t.y][t.x]
        ELSE Undefined

\* C1: the committed cell (gridX, gridY) is always inside the 20x12 grid and
\* its tile is not collidable.
C1_CellPassable ==
    /\ gridX \in Cols
    /\ gridY \in Rows
    /\ dungeonGrid[gridY][gridX] \notin Collidable

\* C2: the destination a tick hands to the tween is the current cell or a
\* cell one orthogonal step away that passed the passability check.
C2_OneStepPerTick ==
    [][Initiates =>
          LET d == tweens'[Len(tweens')]
          IN  \/ d.x = gridX /\ d.y = gridY
              \/ /\ Abs(d.x - gridX) + Abs(d.y - gridY) = 1
                 /\ d.x \in Cols /\ d.y \in Rows
                 /\ dungeonGrid[d.y][d.x] \notin Collidable]_vars

\* C3: a tick initiates a move only 200 ms or more after the move before it:
\* lastMoveTime is the time of the last initiation (set at initiation, not at
\* the tween's completion), and an initiating tick is at least 200 ms later.
C3_Cooldown ==
    [][/\ Initiates =>
             /\ lastMoveTime' = now
             /\ now - (IF lastMoveTime = Undefined THEN 0 ELSE lastMoveTime)
                   >= 200
       /\ lastMoveTime' # lastMoveTime =>
             \/ Initiates
             \/ lastMoveTime = Undefined /\ lastMoveTime' = 0]_vars

\* a tick inside the cooldown window of a move made earlier was refused
C3_Witness ==
    /\ phase = "idle"
    /\ lastTick.reached = "cooldown"
    /\ lastMoveTime >= StartTime
    /\ now - lastMoveTime < 200
    /\ now > lastMoveTime

\* C4: canMove(x, y) answers for every coordinate pair, also outside the
\* grid: false out of bounds or on a collidable tile, true otherwise.
C4_CanMoveTotal ==
    \A x \in -1 .. GRID_WIDTH, y \in -1 .. GRID_HEIGHT :
       canMoveResult(dungeonGrid, x, y) =
          IF x < 0 \/ x >= GRID_WIDTH \/ y < 0 \/ y >= GRID_HEIGHT
          THEN "false"
          ELSE IF dungeonGrid[y][x] \in {1, 2, 7, 13, 14} THEN "false"
          ELSE "true"

\* C5: once the over-state is set, no later event decreases health.
C5_TerminalIdempotent ==
    [][gameOver => playerHealth' >= playerHealth]_vars

\* C6: once the over-state is set, an updatePlayer tick starts no tween,
\* leaves lastMoveTime alone, resolves no collision and fires no clear.
C6_GameOverFreeze ==
    [][(gameOver /\ IsTick) =>
          UNCHANGED <<tweens, lastMoveTime, enemies, enemyProjectiles,
                      shieldHP, playerHealth, chargeLevel>>]_vars

C8_ResolvedEveryTick ==
    [][IsTick =>
          /\ lastTick'.missed = {}
          /\ (xbiteKey = "justDown" /\ chargeLevel >= 1000)
                => chargeLevel' = 0]_vars

C10_PowerUpOverwrite ==
    [][IsArrival =>
          LET t == Head(tweens)
              tile == IF t.x \in Cols /\ t.y \in Rows
                      THEN dungeonGrid[t.y][t.x] ELSE Undefined
          IN  /\ tile = 19 => shieldHP' = 3 /\ timers' = timers
              /\ tile = 20 =>
                    /\ timers' = [timers EXCEPT !.tripleShot = 30000]
                    /\ shieldHP' = shieldHP
              /\ tile = 21 =>
                    /\ timers' = [timers EXCEPT !.speedBoost = 30000]
                    /\ shieldHP' = shieldHP
              /\ tile = 22 =>
                    /\ timers' = [timers EXCEPT !.slowShot = 30000]
                    /\ shieldHP' = shieldHP]_vars

\* both shield tiles collected one after the other, the charge still 3
C10_Witness ==
    /\ dungeonGrid[2][4] = 0
    /\ dungeonGrid[1][4] = 0
    /\ gridX = 4 /\ gridY = 1
    /\ shieldHP = 3

\* C11: arriving on a health tile (23) with health h sets health to
\* min(h + 25, 100), so 90 becomes 100 and not 115; and health, at most 100 at
\* the start, never exceeds 100.
C11_HealClamp ==
    [][/\ playerHealth' <= 100
       /\ (IsArrival /\ ArrivalTile = 23) =>
             playerHealth' = IF playerHealth + 25 > 100 THEN 100
                             ELSE playerHealth + 25]_vars

\* entered through the left door with health 90 and stepped on the health
\* tile next to it: health is 100
C11_Witness ==
    /\ gridX = 1 /\ gridY = 6
    /\ dungeonGrid[6][1] = 0
    /\ playerHealth = 100
    /\ hasKey = FALSE /\ keyPresent

\* C12: a move attempt towards a cell out of bounds or collidable never ends
\* updatePlayer with an exception; the tick is a movement no-op: no tween
\* is started, the cell is unchanged and lastMoveTime is unchanged.
C12_RejectedMoveSilent ==
    [][IsTick =>
          /\ lastTick'.reached # "TypeError"
          /\ ~Initiates =>
                /\ tweens' = tweens
                /\ gridX' = gridX /\ gridY' = gridY
                /\ lastMoveTime' = IF lastMoveTime = Undefined THEN 0
                                   ELSE lastMoveTime]_vars

\* C13: a tick at which scene.dungeonGrid is absent returns without an
\* exception and changes neither the cell, health, shield charge, score,
\* timers, key flag nor lastMoveTime (0 standing for a value not yet set), and
\* starts no tween; a tick at which the grid is present is not held up by
\* the grid having been absent before.
C13_MissingGrid ==
    [][IsTick =>
          LET last0 == IF lastMoveTime = Undefined THEN 0 ELSE lastMoveTime
          IN  /\ ~gridReady =>
                    /\ lastTick'.reached \in {"cooldown", "nogrid"}
                    /\ UNCHANGED <<gridX, gridY, playerHealth, shieldHP, score,
                                   timers, hasKey, tweens, dungeonGrid>>
                    /\ lastMoveTime' = last0
              /\ (gridReady /\ now - last0 >= 200) =>
                    lastTick'.reached \in {"done", "TypeError"}]_vars

\* the tick of a session that entered through the top door before the room's
\* grid was set ended in the missing-grid return
C13_Witness ==
    /\ phase = "idle"
    /\ ~gridReady
    /\ lastTick.reached = "nogrid"
    /\ gridX = 10 /\ gridY = 0
    /\ lastMoveTime = 0

\* C14: the tile interaction runs once per committed arrival and only then.
\* A tween completion commits the destination computed at initiation and
\* applies the tile's effect once: a hazard (5 or 8) takes exactly 20 health
\* and sets the over-state iff the health left is <= 0, a tile that is neither
\* hazard, treasure nor power-up has no effect.  No other step moves the
\* player or applies a tile effect: standing on a hazard costs nothing more.
C14_InteractionPerArrival ==
    [][/\ IsArrival =>
             /\ gridX' = Head(tweens).x /\ gridY' = Head(tweens).y
             /\ ArrivalTile \in {5, 8} =>
                   /\ playerHealth' = playerHealth - 20
                   /\ gameOver' = (gameOver \/ playerHealth' <= 0)
                   /\ UNCHANGED <<score, dungeonGrid, shieldHP, timers,
                                  powerUpSprites>>
             /\ ArrivalTile \notin ({5, 8, 6} \cup (19 .. 23)) =>
                   UNCHANGED <<playerHealth, gameOver, score, dungeonGrid,
                               shieldHP, timers, powerUpSprites>>
       /\ ~IsArrival =>
             /\ UNCHANGED <<gridX, gridY, score, dungeonGrid, timers,
                            powerUpSprites>>
             /\ playerHealth' # playerHealth =>
                   IsFullTick /\ lastTick'.hits > 0]_vars

\* from (10,6) with health 15 right onto the spike at (11,6): health -5 and
\* the over-state set, and a later full tick on the spike took nothing more
C14_Witness ==
    /\ gridX = 11 /\ gridY = 6
    /\ dungeonGrid[6][11] = 5
    /\ playerHealth = -5
    /\ gameOver
    /\ tweens = <<>>
    /\ phase = "idle"
    /\ lastTick.reached = "done"
    /\ now - lastMoveTime >= 200

C16_PowerUpConsumed ==
    [][/\ (IsArrival /\ ArrivalTile \in 19 .. 23) =>
             LET t == Head(tweens)
             IN  /\ dungeonGrid' = [dungeonGrid EXCEPT ![t.y][t.x] = 0]
                 /\ powerUpSprites' = powerUpSprites \ {<<t.x, t.y>>}
                 /\ ArrivalTile = 19 => shieldHP' = 3
                 /\ ArrivalTile = 20 => timers'.tripleShot = 30000
                 /\ ArrivalTile = 21 => timers'.speedBoost = 30000
                 /\ ArrivalTile = 22 => timers'.slowShot = 30000
                 /\ ArrivalTile = 23 => playerHealth' > playerHealth
                                          \/ playerHealth' = 100
       /\ powerUpSprites' # powerUpSprites =>
             IsArrival /\ ArrivalTile \in 19 .. 23
       /\ powerUpSprites' \subseteq powerUpSprites
       /\ \A c \in powerUpSprites' :
             dungeonGrid'[c[2]][c[1]] \in 19 .. 23]_vars

\* the slow-shot tile at (4,4), which had no sprite, was consumed: cell
\* floor, timer set, every sprite of the room still there
C16_Witness ==
    /\ gridX = 4 /\ gridY = 4
    /\ dungeonGrid[4][4] = 0
    /\ timers.slowShot = 30000
    /\ <<4, 4>> \notin RoomSprites
    /\ powerUpSprites = RoomSprites

\* C17: a tick whose key block sees the player on the key sets the key flag
\* and destroys and clears the key, once: the flag is never reset to false
\* and the key never comes back.  The pickup does not consume a move: it
\* leaves the cell alone, and lastMoveTime and the tweens unless the same
\* tick initiated a move of its own.
C17_KeyFlag ==
    [][/\ hasKey => hasKey'
       /\ ~keyPresent => ~keyPresent'
       /\ (IsFullTick /\ keyPresent /\ lastTick'.keyOverlap) =>
             hasKey' /\ ~keyPresent'
       /\ (hasKey' # hasKey \/ keyPresent' # keyPresent) =>
             /\ IsFullTick /\ lastTick'.keyOverlap
             /\ keyPresent /\ ~keyPresent' /\ hasKey'
             /\ gridX' = gridX /\ gridY' = gridY
             /\ ~Initiates =>
                   /\ tweens' = tweens
                   /\ lastMoveTime' = IF lastMoveTime = Undefined THEN 0
                                      ELSE lastMoveTime]_vars

\* the key picked up on the left door by a session that has not moved yet
C17_Witness ==
    /\ hasKey /\ ~keyPresent
    /\ gridX = 0 /\ gridY = 6
    /\ lastMoveTime = 0
    /\ tweens = <<>>

\* C18: the grid is written only to turn the cell the player has just
\* arrived on from treasure (6) or a power-up code (19..23) into floor (0);
\* every other cell and every other code is left as it is by every tick and
\* every tween completion.
C18_GridFrame ==
    [][dungeonGrid' # dungeonGrid =>
          /\ IsArrival
          /\ ArrivalTile \in {6} \cup (19 .. 23)
          /\ dungeonGrid' =
                [dungeonGrid EXCEPT ![Head(tweens).y][Head(tweens).x] = 0]]_vars

\* after the arrival on the treasure at (9,6) the grid is the room's but for
\* that cell
C18_Witness ==
    /\ gridX = 9 /\ gridY = 6
    /\ tweens = <<>>
    /\ dungeonGrid # Room
    /\ dungeonGrid = [Room EXCEPT ![6][9] = 0]

\* C19: no move is initiated while the completion of an earlier one is still
\* pending, for the 100 ms tween and for the 200 ms water tween against the
\* 200 ms cooldown; so every committed cell is at most one orthogonal step
\* from the cell committed before it.
C19_NoOverlappingMoves ==
    [][/\ Initiates => tweens = <<>>
       /\ IsArrival => Abs(gridX' - gridX) + Abs(gridY' - gridY) <= 1]_vars

\* the wind tiles of the room, and the cell each one pushes to
GustCells == {c \in {<<10, 7>>, <<11, 7>>, <<18, 6>>, <<10, 10>>, <<9, 7>>} :
                 RoomTile(c[1], c[2]) \in {9, 10}}
GustTarget(c) ==
    IF RoomTile(c[1], c[2]) = 9 THEN <<c[1] + 1, c[2]>> ELSE <<c[1] - 1, c[2]>>
Passable(c) ==
    /\ c[1] \in Cols /\ c[2] \in Rows
    /\ dungeonGrid[c[2]][c[1]] \notin Collidable
\* the time from a commit to the commit of the move after it, at most: the
\* rest of the cooldown, a frame of the longest delta, the tween
PushTime == MOVEMENT_COOLDOWN + NORMAL_MOVEMENT_DURATION

\* C20: committed on a gust tile whose neighbour in the gust's direction is
\* passable, with no direction key held, no move pending and the game kept
\* running, the player is eventually committed to that neighbour; on a gust
\* tile whose neighbour is not passable the player stays where it is.
C20_WindProgress ==
    /\ \A c \in GustCells :
          (/\ gridX = c[1] /\ gridY = c[2]
           /\ Passable(GustTarget(c))
           /\ tweens = <<>>
           /\ now + PushTime <= MaxTime)
             ~> (gridX = GustTarget(c)[1] /\ gridY = GustTarget(c)[2])
    /\ [][\A c \in GustCells :
            (/\ gridX = c[1] /\ gridY = c[2]
             /\ ~Passable(GustTarget(c))
             /\ tweens = <<>>)
               => (gridX' = gridX /\ gridY' = gridY /\ tweens' = <<>>)]_vars

\* entered through the bottom door onto the gust-left tile at (10,10) and
\* carried on to (9,10) with no key held
C20_Witness ==
    /\ gridX = 9 /\ gridY = 10
    /\ tweens = <<>>
    /\ lastMoveTime >= StartTime + MOVEMENT_COOLDOWN

====
